---- MODULE Spec2Model ----
(***************************************************************************)
(* Model of the water-quality upload backend: the range loaders            *)
(* (buoys.py, toolbox.py), the cell classifiers (WQ_Buoy.highlight_out_of_ *)
(* range, toolbox.highlight_out_of_range), the sheet naming and the upload *)
(* and download handlers with the in-memory latest workbook (main.py).     *)
(*                                                                         *)
(* Text is a sequence of one-character strings.  Numbers are held in       *)
(* tenths (7.5 is 75); a float is a record so that NaN is a value.         *)
(* Non-ASCII characters of the source are written with ASCII stand-ins:    *)
(* "EMDASH" is the one character U+2014, "deg" the degree sign, "u" the    *)
(* micro sign.                                                             *)
(***************************************************************************)
EXTENDS Integers, Sequences, FiniteSets, TLC

VARIABLES
    \* classifier runs (one styled column)
    clsRanges, clsName, clsCol, clsTokens, clsStyles, clsPc,
    \* sheet naming runs
    nmProposed, nmExisting, nmOut, nmPc,
    \* range loader runs
    ldSource, ldResult, ldPc,
    \* the server: WQ_Buoy.RANGES, LATEST_DOWNLOAD_BYTES, requests in flight
    RANGES, LATEST_DOWNLOAD_BYTES, up, loop, dl, hist

clsVars == <<clsRanges, clsName, clsCol, clsTokens, clsStyles, clsPc>>
nmVars == <<nmProposed, nmExisting, nmOut, nmPc>>
ldVars == <<ldSource, ldResult, ldPc>>
srvVars == <<RANGES, LATEST_DOWNLOAD_BYTES, up, loop, dl, hist>>
vars == <<clsVars, nmVars, ldVars, srvVars>>

----------------------------------------------------------------------------
(* Bounds of the model *)

MaxRows == 1
MaxFiles == 2
MaxSourceRows == 2
MaxUploads == 2
MaxDownloads == 1
MaxReloads == 1

----------------------------------------------------------------------------
(* Floats and text *)

NaN == [nan |-> TRUE, v |-> 0]
F(n) == [nan |-> FALSE, v |-> n]

\* IEEE comparisons: any comparison with NaN is false
Lt(a, b) == ~a.nan /\ ~b.nan /\ a.v < b.v
Gt(a, b) == ~a.nan /\ ~b.nan /\ a.v > b.v

SetMin(S) == CHOOSE m \in S : \A k \in S : m <= k
SetMax(S) == CHOOSE m \in S : \A k \in S : m >= k

\* str.strip(): drop leading and trailing whitespace
Strip(s) ==
    LET keep == {i \in 1..Len(s) : s[i] # " "}
    IN  IF keep = {} THEN <<>> ELSE SubSeq(s, SetMin(keep), SetMax(keep))

UpperChars == <<"A", "B", "C", "D", "E", "F", "G", "H", "I", "J", "K", "L", "M",
                "N", "O", "P", "Q", "R", "S", "T", "U", "V", "W", "X", "Y", "Z">>
LowerChars == <<"a", "b", "c", "d", "e", "f", "g", "h", "i", "j", "k", "l", "m",
                "n", "o", "p", "q", "r", "s", "t", "u", "v", "w", "x", "y", "z">>

\* str.lower()
Lower(t) ==
    [i \in DOMAIN t |->
        IF \E j \in 1..26 : UpperChars[j] = t[i]
        THEN LowerChars[CHOOSE j \in 1..26 : UpperChars[j] = t[i]]
        ELSE t[i]]

Digits == <<"0", "1", "2", "3", "4", "5", "6", "7", "8", "9">>
IsDigit(c) == \E d \in 1..10 : Digits[d] = c
DigitVal(c) == (CHOOSE d \in 1..10 : Digits[d] = c) - 1

RECURSIVE NatVal(_)
NatVal(s) == IF s = <<>> THEN 0
             ELSE 10 * NatVal(SubSeq(s, 1, Len(s) - 1)) + DigitVal(s[Len(s)])

RECURSIVE NatStr(_)
NatStr(n) == IF n < 10 THEN <<Digits[n + 1]>>
             ELSE NatStr(n \div 10) \o <<Digits[(n % 10) + 1]>>

AllDigits(s) == s # <<>> /\ \A i \in 1..Len(s) : IsDigit(s[i])

\* The number a text parses to (in tenths), NaN when it is no number.  The
\* texts of the model are D+ or D+.D; "nan" and the empty text parse to NaN.
ParseFloat(s) ==
    LET t == Strip(s)
        n == Len(t)
    IN  IF AllDigits(t) THEN F(10 * NatVal(t))
        ELSE IF n >= 3 /\ t[n - 1] = "." /\ AllDigits(SubSeq(t, 1, n - 2))
                /\ IsDigit(t[n])
             THEN F(10 * NatVal(SubSeq(t, 1, n - 2)) + DigitVal(t[n]))
             ELSE NaN

\* repr of a float: 7.5 -> "7.5", NaN -> "nan"
FloatStr(x) ==
    IF x.nan THEN <<"n", "a", "n">>
    ELSE NatStr(x.v \div 10) \o <<".">> \o <<Digits[(x.v % 10) + 1]>>

----------------------------------------------------------------------------
(* Cells of a DataFrame column *)

NanCell == [k |-> "nan", x |-> NaN, s |-> <<>>]
NumCell(n) == [k |-> "num", x |-> F(n), s |-> <<>>]
StrCell(t) == [k |-> "str", x |-> NaN, s |-> t]

\* Series.isna(), elementwise
IsNa(c) == c.k = "nan" \/ (c.k = "num" /\ c.x.nan)

\* Series.astype(str), elementwise
AsStr(c) == IF c.k = "str" THEN c.s ELSE FloatStr(IF c.k = "nan" THEN NaN ELSE c.x)

\* pd.to_numeric(col, errors="coerce"), elementwise
ToNumeric(c) == IF c.k = "str" THEN ParseFloat(c.s)
                ELSE IF c.k = "nan" THEN NaN ELSE c.x

\* DataFrame.fillna("N/A"), elementwise
NAText == <<"N", "/", "A">>
FillNa(c) == IF IsNa(c) THEN StrCell(NAText) ELSE c

----------------------------------------------------------------------------
(* buoys.py: the fixed schema and the fallback ranges *)

\* "Water Temperature (degC)"
WaterTemperature ==
    <<"W", "a", "t", "e", "r", " ", "T", "e", "m", "p", "e", "r", "a",
    "t", "u", "r", "e", " ", "(", "deg", "C", ")">>
\* "Conductivity (uS/cm)"
Conductivity ==
    <<"C", "o", "n", "d", "u", "c", "t", "i", "v", "i", "t", "y", " ",
    "(", "u", "S", "/", "c", "m", ")">>
\* "Turbidity (NTU)"
Turbidity ==
    <<"T", "u", "r", "b", "i", "d", "i", "t", "y", " ", "(", "N", "T",
    "U", ")">>
\* "Dissolved Oxygen (mg/L)"
DissolvedOxygen ==
    <<"D", "i", "s", "s", "o", "l", "v", "e", "d", " ", "O", "x", "y",
    "g", "e", "n", " ", "(", "m", "g", "/", "L", ")">>
\* "pH"
PH ==
    <<"p", "H">>
\* "Chlorophyll-a (ug/L)"
ChlorophyllA ==
    <<"C", "h", "l", "o", "r", "o", "p", "h", "y", "l", "l", "-", "a",
    " ", "(", "u", "g", "/", "L", ")">>
\* "Crude Oil (ppm)"
CrudeOil ==
    <<"C", "r", "u", "d", "e", " ", "O", "i", "l", " ", "(", "p", "p",
    "m", ")">>
\* "Fine Oil (ppm)"
FineOil ==
    <<"F", "i", "n", "e", " ", "O", "i", "l", " ", "(", "p", "p", "m",
    ")">>

PARAM_COLS ==
    <<WaterTemperature, Conductivity, Turbidity, DissolvedOxygen,
      PH, ChlorophyllA, CrudeOil, FineOil>>

ParamSet == {PARAM_COLS[i] : i \in 1..Len(PARAM_COLS)}

\* _FALLBACK_RANGES, in tenths
_FALLBACK_RANGES ==
       WaterTemperature :> <<F(260), F(350)>>
    @@ Conductivity :> <<F(420000), F(520000)>>
    @@ Turbidity :> <<F(0), F(250)>>
    @@ DissolvedOxygen :> <<F(40), F(100)>>
    @@ PH :> <<F(75), F(90)>>
    @@ ChlorophyllA :> <<F(0), F(200)>>
    @@ CrudeOil :> <<F(0), F(5)>>
    @@ FineOil :> <<F(0), F(5)>>

----------------------------------------------------------------------------
(* The classifiers: WQ_Buoy.highlight_out_of_range and toolbox's *)

STYLE_NONE == ""
STYLE_NA == "background-color: #fff3b0;"
STYLE_OOR == "background-color: #532fd3; color: white;"
STYLE_RED == "background-color: #d92d20; color: white;"

\* the classification a style renders
Classification(style) ==
    IF style \in {STYLE_OOR, STYLE_RED} THEN "OutOfRange"
    ELSE IF style = STYLE_NA THEN "Missing" ELSE "Normal"

\* na_tokens=("N/A", "NA", "na", "n/a", "-", "EMDASH", "")
DefaultTokens ==
    {NAText, <<"N", "A">>, <<"n", "a">>, <<"n", "/", "a">>, <<"-">>,
     <<"EMDASH">>, <<>>}

\* a mask that forgets to strip the text before the lookup
na_mask_unstripped(col, na_tokens) ==
    [i \in DOMAIN col |-> IsNa(col[i]) \/ AsStr(col[i]) \in na_tokens]

\* col.isna() | col.astype(str).str.strip().isin(na_tokens)
na_mask(col, na_tokens) ==
    [i \in DOMAIN col |-> IsNa(col[i]) \/ Strip(AsStr(col[i])) \in na_tokens]

\* a mask with the upper bound exclusive
oor_mask_exclusive(col, lo, hi) ==
    [i \in DOMAIN col |->
        \/ Lt(ToNumeric(col[i]), lo)
        \/ Gt(ToNumeric(col[i]), hi)
        \/ (~ToNumeric(col[i]).nan /\ ToNumeric(col[i]) = hi)]

\* vals = pd.to_numeric(col, errors="coerce"); (vals < lo) | (vals > hi)
oor_mask(col, lo, hi) ==
    [i \in DOMAIN col |->
        Lt(ToNumeric(col[i]), lo) \/ Gt(ToNumeric(col[i]), hi)]

\* WQ_Buoy.highlight_out_of_range.style_col, with cls.RANGES as it is read
style_col(ranges, name, col, na_tokens) ==
    LET mask == na_mask(col, na_tokens)
        styles == [i \in DOMAIN col |-> IF mask[i] THEN STYLE_NA ELSE STYLE_NONE]
    IN  IF name \in DOMAIN ranges
        THEN LET oor == oor_mask(col, ranges[name][1], ranges[name][2])
             IN  [i \in DOMAIN col |-> IF oor[i] THEN STYLE_OOR ELSE styles[i]]
        ELSE styles

\* toolbox.highlight_out_of_range.style_column
style_column(ranges, name, col) ==
    IF name \notin DOMAIN ranges
    THEN [i \in DOMAIN col |-> STYLE_NONE]
    ELSE LET mask == oor_mask(col, ranges[name][1], ranges[name][2])
         IN  [i \in DOMAIN col |-> IF mask[i] THEN STYLE_RED ELSE STYLE_NONE]

\* wq_buoy.generate_highlighted_excel_from_upload: columns in the range map
\* are coerced to numeric before they are styled
CoerceColumn(ranges, name, col) ==
    IF name \in DOMAIN ranges
    THEN [i \in DOMAIN col |->
            [k |-> "num", x |-> ToNumeric(col[i]), s |-> <<>>]]
    ELSE col

----------------------------------------------------------------------------
(* Classifier runs: one column, one range table, one token set *)

Notes == <<"N", "o", "t", "e", "s">>

Cores ==
    {NAText, <<"N", "A">>, <<"n", "a">>, <<"n", "/", "a">>, <<"-">>,
     <<"EMDASH">>, <<>>, <<"N", "a">>, <<"N", "/", "a">>,
     <<"7", ".", "0">>, <<"8">>, <<"9", ".", "5">>, <<"7", ".", "5">>,
     <<"9", ".", "0">>, <<"a", "b", "c">>, <<"n", "a", "n">>}

CellPool ==
    {NanCell} \cup {NumCell(n) : n \in {70, 75, 80, 90, 95}}
    \cup {StrCell(t) : t \in Cores}
    \cup {StrCell(<<" ">> \o t \o <<" ">>) : t \in Cores}
    \cup {StrCell(<<" ", "N", "A">>), StrCell(<<"N", "A", " ">>)}

\* the scenario column pH = [7.0, 8.0, 9.5, "N/A"]
ExampleColumn == <<NumCell(70), NumCell(80), NumCell(95), StrCell(NAText)>>

Columns == UNION {[1..n -> CellPool] : n \in 1..MaxRows} \cup {ExampleColumn}

RangeTables ==
    { PH :> <<F(75), F(90)>>,
      _FALLBACK_RANGES,
      <<>>,
      PH :> <<NaN, F(90)>>,
      PH :> <<F(90), F(75)>> }

TokenSets ==
    { DefaultTokens,
      {NAText},
      DefaultTokens \cup {<<"9", ".", "5">>, <<"9", ".", "0">>} }

ClsIdle ==
    /\ clsRanges = <<>> /\ clsName = <<>> /\ clsCol = <<>>
    /\ clsTokens = {} /\ clsStyles = <<>> /\ clsPc = "idle"

NmIdle == nmProposed = <<>> /\ nmExisting = {} /\ nmOut = <<>> /\ nmPc = "idle"

LdIdle == ldSource = <<>> /\ ldResult = <<>> /\ ldPc = "idle"

SrvIdle ==
    /\ RANGES = <<>> /\ LATEST_DOWNLOAD_BYTES = <<>> /\ up = <<>>
    /\ loop = 0 /\ dl = <<>> /\ hist = <<>>

ClsInit ==
    /\ clsRanges \in RangeTables
    /\ clsName \in {PH, Turbidity, Notes}
    /\ clsCol \in Columns
    /\ clsTokens \in TokenSets
    /\ clsStyles = <<>>
    /\ clsPc = "ready"
    /\ NmIdle /\ LdIdle /\ SrvIdle

\* WQ_Buoy.highlight_out_of_range(df, na_tokens) called directly
ClsHighlight ==
    /\ clsPc = "ready"
    /\ clsStyles' = style_col(clsRanges, clsName, clsCol, clsTokens)
    /\ clsPc' = "buoy"
    /\ UNCHANGED <<clsRanges, clsName, clsCol, clsTokens, nmVars, ldVars, srvVars>>

\* one sheet of main._highlight_df_bytes: df.fillna("N/A"), then the
\* classifier with its default tokens
ClsUpload ==
    /\ clsPc = "ready"
    /\ clsStyles' = style_col(clsRanges, clsName,
                              [i \in DOMAIN clsCol |-> FillNa(clsCol[i])],
                              DefaultTokens)
    /\ clsPc' = "upload"
    /\ UNCHANGED <<clsRanges, clsName, clsCol, clsTokens, nmVars, ldVars, srvVars>>

\* wq_buoy.generate_highlighted_excel_from_upload: coerce, then toolbox's
\* classifier
ClsToolbox ==
    /\ clsPc = "ready"
    /\ clsStyles' = style_column(clsRanges, clsName,
                                 CoerceColumn(clsRanges, clsName, clsCol))
    /\ clsPc' = "toolbox"
    /\ UNCHANGED <<clsRanges, clsName, clsCol, clsTokens, nmVars, ldVars, srvVars>>

ClsNext == ClsHighlight \/ ClsUpload \/ ClsToolbox

SpecClassify == ClsInit /\ [][ClsNext]_vars

----------------------------------------------------------------------------
(* Claims about the classifiers (SpecClassify) *)

ClsDone == clsPc \in {"buoy", "upload", "toolbox"}

\* the configured tokens of the run: the direct call takes them as argument,
\* the upload path uses the defaults
ClsTokensUsed == IF clsPc = "buoy" THEN clsTokens ELSE DefaultTokens

\* v < min or v > max, for the numeric value of cell i against the range of
\* the styled column
ClsOutside(i) ==
    /\ clsName \in DOMAIN clsRanges
    /\ LET v == ToNumeric(clsCol[i])
           lo == clsRanges[clsName][1]
           hi == clsRanges[clsName][2]
       IN  /\ ~v.nan
           /\ \/ ~lo.nan /\ v.v < lo.v
              \/ ~hi.nan /\ v.v > hi.v

ExampleRanges == PH :> <<F(75), F(90)>>

\* cell i holds exactly the min or the max of its column's range
ClsBoundary(i) ==
    /\ clsName \in DOMAIN clsRanges
    /\ ~ToNumeric(clsCol[i]).nan
    /\ ToNumeric(clsCol[i]) \in {clsRanges[clsName][1], clsRanges[clsName][2]}

ClsExample ==
    /\ clsCol = ExampleColumn /\ clsRanges = ExampleRanges
    /\ clsName = PH /\ clsPc # "toolbox"
    /\ DefaultTokens \subseteq ClsTokensUsed

ClsClasses == [i \in DOMAIN clsStyles |-> Classification(clsStyles[i])]

\* C1 as stated: a cell is OutOfRange iff its column is a key of the range
\* table and the cell coerces to a number below min or above max; cells
\* equal to min or to max are Normal (read here as: not OutOfRange); the
\* scenario column classifies as [OutOfRange, Normal, OutOfRange, Missing].
C1_AsStated ==
    ClsDone =>
        /\ \A i \in DOMAIN clsCol :
            /\ ClsClasses[i] = "OutOfRange" <=> ClsOutside(i)
            /\ ClsBoundary(i) => ClsClasses[i] # "OutOfRange"
        /\ ClsExample
            => ClsClasses = <<"OutOfRange", "Normal", "OutOfRange", "Missing">>

\* C1 amended: the same equivalence and scenario; a cell equal to min or to
\* max is not OutOfRange provided min <= max, and is Normal unless its text
\* matches a configured NA token.
C1_OutOfRangeIff ==
    ClsDone =>
        /\ \A i \in DOMAIN clsCol :
            /\ ClsClasses[i] = "OutOfRange" <=> ClsOutside(i)
            /\ ( /\ ClsBoundary(i)
                 /\ clsRanges[clsName][1].v <= clsRanges[clsName][2].v )
               => /\ ClsClasses[i] # "OutOfRange"
                  /\ \/ ClsClasses[i] = "Normal"
                     \/ /\ clsPc = "buoy"
                        /\ Strip(AsStr(clsCol[i])) \in clsTokens
        /\ ClsExample
            => ClsClasses = <<"OutOfRange", "Normal", "OutOfRange", "Missing">>

C1_Witness ==
    /\ clsPc = "upload" /\ clsCol = ExampleColumn
    /\ clsRanges = ExampleRanges /\ clsName = PH
    /\ clsStyles = <<STYLE_OOR, STYLE_NONE, STYLE_OOR, STYLE_NA>>

CaseFold(t) == Lower(t)

\* the text form of cell i as the classifier sees it, trimmed
ClsTrimmed(i) == Strip(AsStr(clsCol[i]))

\* C2 as stated: a cell that is the absent sentinel, or whose trimmed and
\* case-normalised text matches a configured NA token, is classified Missing.
C2_AsStated ==
    (ClsDone /\ clsPc # "toolbox") =>
        \A i \in DOMAIN clsCol :
            ( \/ IsNa(clsCol[i])
              \/ CaseFold(ClsTrimmed(i)) \in {CaseFold(t) : t \in ClsTokensUsed} )
            => ClsClasses[i] = "Missing"

\* C2 amended: a cell that is the absent sentinel, or whose trimmed text
\* equals a configured NA token (case-sensitively), is classified Missing,
\* unless it is also OutOfRange (a token that parses as a number outside the
\* column's range); with the default tokens it is always Missing.
C2_MissingExact ==
    (ClsDone /\ clsPc # "toolbox") =>
        \A i \in DOMAIN clsCol :
            (IsNa(clsCol[i]) \/ ClsTrimmed(i) \in ClsTokensUsed)
            => /\ ClsClasses[i] \in {"Missing", "OutOfRange"}
               /\ ClsClasses[i] = "OutOfRange" => ClsOutside(i)
               /\ ClsTokensUsed = DefaultTokens
                    => ClsClasses[i] = "Missing"

C2_Witness ==
    /\ clsPc = "buoy" /\ clsTokens = DefaultTokens /\ clsName = Notes
    /\ Len(clsCol) = 1 /\ clsCol[1] = StrCell(<<" ", "n", "/", "a", " ">>)
    /\ clsStyles[1] = STYLE_NA

----------------------------------------------------------------------------
(* main.py: sheet names *)

\* Excel's limit on a sheet name, as __unique_sheet_name applies it
SheetNameMax == 31

\* the most files one upload carries: file_1, file_2, file_3
UploadSlots == 3

Take(s, n) == SubSeq(s, 1, IF n < Len(s) THEN n ELSE Len(s))

SheetText == <<"S", "h", "e", "e", "t">>

\* f"_{suffix}"
SuffixText(suffix) == <<"_">> \o NatStr(suffix)

\* the while loop of __unique_sheet_name
RECURSIVE UniqueLoop(_, _, _, _)
UniqueLoop(proposed, existing, name, suffix) ==
    IF name \notin existing THEN name
    ELSE LET room == SheetNameMax - Len(SuffixText(suffix))
             trimmed == Take(proposed, IF room > 0 THEN room ELSE 0)
         IN  UniqueLoop(proposed, existing, trimmed \o SuffixText(suffix),
                        suffix + 1)

\* a variant that appends the suffix without trimming the base
_unique_sheet_name_untrimmed(base, existing) ==
    LET stripped == Strip(IF base = <<>> THEN SheetText ELSE base)
        proposed == Take(IF stripped = <<>> THEN SheetText ELSE stripped,
                         SheetNameMax)
        n == SetMin({k \in 2..(Cardinality(existing) + 2) :
                        proposed \o SuffixText(k) \notin existing})
    IN  IF proposed \notin existing THEN proposed
        ELSE proposed \o SuffixText(n)

\* __unique_sheet_name(base, existing)
_unique_sheet_name(base, existing) ==
    LET stripped == Strip(IF base = <<>> THEN SheetText ELSE base)
        proposed == Take(IF stripped = <<>> THEN SheetText ELSE stripped,
                         SheetNameMax)
    IN  UniqueLoop(proposed, existing, proposed, 2)

\* str.rsplit(".", 1)[0]: the text before the last dot, all of it without one
StemOf(filename) ==
    LET dots == {i \in 1..Len(filename) : filename[i] = "."}
    IN  IF dots = {} THEN filename ELSE SubSeq(filename, 1, SetMax(dots) - 1)

\* (f.filename or f"Sheet{idx}").rsplit(".", 1)[0].strip() or f"Sheet{idx}"
SheetBase(filename, idx) ==
    LET positional == SheetText \o NatStr(idx)
        stem == Strip(StemOf(IF filename = <<>> THEN positional ELSE filename))
    IN  IF stem = <<>> THEN positional ELSE stem

----------------------------------------------------------------------------
(* Sheet naming runs: the file names of one upload, named in order *)

Rep(c, n) == [i \in 1..n |-> c]

DataText == <<"D", "a", "t", "a">>
Csv == <<".", "c", "s", "v">>
Xlsx == <<".", "x", "l", "s", "x">>

FileNames ==
    { DataText \o Csv, DataText \o Xlsx, DataText,
      DataText \o <<"_", "2">> \o Csv,
      <<" ">> \o DataText \o <<" ">> \o Csv,
      <<>>, Csv, SheetText \o <<"2">> \o Csv,
      <<"m", "y", ".">> \o DataText \o Csv,
      Rep("a", SheetNameMax) \o Csv,
      Rep("a", SheetNameMax + 2) \o Xlsx,
      Rep("a", SheetNameMax - 2) \o <<"_", "2">> \o Csv }

NmInit ==
    /\ nmProposed \in UNION {[1..n -> FileNames] : n \in 1..UploadSlots}
    /\ nmExisting = {}
    /\ nmOut = <<>>
    /\ nmPc = "naming"
    /\ ClsIdle /\ LdIdle /\ SrvIdle

\* one turn of the loop over the incoming files: name the next sheet and add
\* the name to existing_names
NmStep ==
    /\ nmPc = "naming"
    /\ LET idx == Len(nmOut) + 1
           sheet_name == _unique_sheet_name(SheetBase(nmProposed[idx], idx),
                                           nmExisting)
       IN  /\ nmExisting' = nmExisting \cup {sheet_name}
           /\ nmOut' = Append(nmOut, sheet_name)
           /\ nmPc' = IF idx = Len(nmProposed) THEN "done" ELSE "naming"
    /\ UNCHANGED <<nmProposed, clsVars, ldVars, srvVars>>

NmNext == NmStep

SpecNames == NmInit /\ [][NmNext]_vars

----------------------------------------------------------------------------
(* Claims about sheet names (SpecNames) *)

\* the proposed name of sheet k: its base, trimmed, cut to 31 characters
NmProposedName(k) ==
    LET b == Strip(SheetBase(nmProposed[k], k))
    IN  Take(IF b = <<>> THEN SheetText ELSE b, SheetNameMax)

\* the suffixed candidate _<n> of sheet k, cut so that it fits
NmCandidate(k, n) ==
    Take(NmProposedName(k), SheetNameMax - Len(SuffixText(n))) \o SuffixText(n)

\* C3: the sheet names of one upload are pairwise distinct and at most 31
\* characters long; a name that collides with an earlier one gets _<n>, n the
\* least number from 2 whose (truncated) candidate is free; the proposed
\* names Data, Data, Data yield Data, Data_2, Data_3.
C3_SheetNames ==
    /\ \A j, k \in DOMAIN nmOut : j # k => nmOut[j] # nmOut[k]
    /\ \A k \in DOMAIN nmOut :
        LET earlier == {nmOut[j] : j \in 1..(k - 1)}
        IN  /\ Len(nmOut[k]) <= SheetNameMax
            /\ NmProposedName(k) \notin earlier => nmOut[k] = NmProposedName(k)
            /\ NmProposedName(k) \in earlier =>
                \E n \in 2..(k + 1) :
                    /\ nmOut[k] = NmCandidate(k, n)
                    /\ \A m \in 2..(n - 1) : NmCandidate(k, m) \in earlier
    /\ ( /\ nmPc = "done" /\ Len(nmProposed) = 3
         /\ \A k \in 1..3 : SheetBase(nmProposed[k], k) = DataText )
       => nmOut = <<DataText, DataText \o <<"_", "2">>, DataText \o <<"_", "3">>>>

\* two over-long names collide while the first candidate is already taken
C3_Witness ==
    /\ nmPc = "done"
    /\ nmProposed = << Rep("a", SheetNameMax - 2) \o <<"_", "2">> \o Csv,
                       Rep("a", SheetNameMax + 2) \o Xlsx,
                       Rep("a", SheetNameMax) \o Csv >>
    /\ nmOut[3] = Rep("a", SheetNameMax - 2) \o <<"_", "3">>

----------------------------------------------------------------------------
(* The range loaders: buoys.load_ranges_csv_simple and toolbox.load_ranges *)

ParameterText == <<"p", "a", "r", "a", "m", "e", "t", "e", "r">>
MinText == <<"m", "i", "n">>
MaxText == <<"m", "a", "x">>

\* REQUIRED_HEADERS = ("parameter", "min", "max")
REQUIRED_HEADERS == <<ParameterText, MinText, MaxText>>

\* float(value): the number, nan for NaN and for the text "nan"; raises
\* ValueError (ok = FALSE) for any other text that is no number
PyFloat(c) ==
    IF c.k # "str" THEN [ok |-> TRUE, x |-> ToNumeric(c)]
    ELSE IF ~ParseFloat(c.s).nan THEN [ok |-> TRUE, x |-> ParseFloat(c.s)]
    ELSE IF Lower(Strip(c.s)) = <<"n", "a", "n">> THEN [ok |-> TRUE, x |-> NaN]
    ELSE [ok |-> FALSE, x |-> NaN]

\* ranges[key] = value
DictSet(d, key, value) ==
    [k \in DOMAIN d \cup {key} |-> IF k = key THEN value ELSE d[k]]

Loaded(r) == [ok |-> TRUE, error |-> "", ranges |-> r]
Raised(e) == [ok |-> FALSE, error |-> e, ranges |-> <<>>]

\* the loop of load_ranges_csv_simple over df.iterrows(): rows of the fixed
\* parameters are stored, float() may raise
RECURSIVE SimpleRows(_, _, _)
SimpleRows(rows, i, ranges) ==
    IF i > Len(rows) THEN Loaded(ranges)
    ELSE LET p == Strip(AsStr(rows[i].parameter))
             lo == PyFloat(rows[i].min)
             hi == PyFloat(rows[i].max)
         IN  IF p \notin ParamSet THEN SimpleRows(rows, i + 1, ranges)
             ELSE IF ~lo.ok \/ ~hi.ok THEN Raised("ValueError")
             ELSE SimpleRows(rows, i + 1, DictSet(ranges, p, <<lo.x, hi.x>>))

\* a variant whose except branch returns an empty table
load_ranges_csv_simple_empty(source) ==
    IF source.state # "table" THEN Loaded(<<>>)
    ELSE IF ~(\A h \in {ParameterText, MinText, MaxText} :
                \E j \in DOMAIN source.headers : source.headers[j] = h)
    THEN Loaded(<<>>)
    ELSE LET got == SimpleRows(source.rows, 1, <<>>)
         IN  IF ~got.ok THEN Loaded(<<>>)
             ELSE Loaded([q \in ParamSet |->
                            IF q \in DOMAIN got.ranges THEN got.ranges[q]
                            ELSE _FALLBACK_RANGES[q]])

\* load_ranges_csv_simple(path): every exception ends in the fallback table
load_ranges_csv_simple(source) ==
    IF source.state # "table" THEN Loaded(_FALLBACK_RANGES)
    ELSE IF ~(\A h \in {ParameterText, MinText, MaxText} :
                \E j \in DOMAIN source.headers : source.headers[j] = h)
    THEN Loaded(_FALLBACK_RANGES)
    ELSE LET got == SimpleRows(source.rows, 1, <<>>)
         IN  IF ~got.ok THEN Loaded(_FALLBACK_RANGES)
             ELSE Loaded([q \in ParamSet |->
                            IF q \in DOMAIN got.ranges THEN got.ranges[q]
                            ELSE _FALLBACK_RANGES[q]])

\* df.dropna(subset=[pcol, mincol, maxcol]); to_numeric(errors="coerce") on
\* min and max; dropna again: the rows that are kept, min and max as numbers
StrictKept(rows) ==
    LET keep == {i \in DOMAIN rows :
                    /\ ~IsNa(rows[i].parameter)
                    /\ ~IsNa(rows[i].min) /\ ~IsNa(rows[i].max)
                    /\ ~ToNumeric(rows[i].min).nan
                    /\ ~ToNumeric(rows[i].max).nan}
    IN  [i \in keep |-> [parameter |-> rows[i].parameter,
                         min |-> ToNumeric(rows[i].min),
                         max |-> ToNumeric(rows[i].max)]]

\* the loop of load_ranges over the kept rows, in file order
RECURSIVE StrictRows(_, _, _, _)
StrictRows(kept, i, n, ranges) ==
    IF i > n THEN ranges
    ELSE IF i \notin DOMAIN kept THEN StrictRows(kept, i + 1, n, ranges)
    ELSE StrictRows(kept, i + 1, n,
                    DictSet(ranges, Strip(AsStr(kept[i].parameter)),
                            <<kept[i].min, kept[i].max>>))

\* a variant that answers a missing file or header with the fallback table
load_ranges_fallback(source) ==
    IF source.state = "missing" THEN Loaded(_FALLBACK_RANGES)
    ELSE IF source.state = "unreadable" THEN Raised("ValueError")
    ELSE IF ~(\A h \in {REQUIRED_HEADERS[j] : j \in 1..3} :
                \E j \in DOMAIN source.headers : Lower(source.headers[j]) = h)
    THEN Loaded(_FALLBACK_RANGES)
    ELSE Loaded(StrictRows(StrictKept(source.rows), 1, Len(source.rows), <<>>))

\* toolbox.load_ranges(csv_path)
load_ranges(source) ==
    IF source.state = "missing" THEN Raised("FileNotFoundError")
    ELSE IF source.state = "unreadable" THEN Raised("ValueError")
    ELSE IF ~(\A h \in {REQUIRED_HEADERS[j] : j \in 1..3} :
                \E j \in DOMAIN source.headers : Lower(source.headers[j]) = h)
    THEN Raised("ValueError")
    ELSE Loaded(StrictRows(StrictKept(source.rows), 1, Len(source.rows), <<>>))

----------------------------------------------------------------------------
(* Loader runs: one range source, loaded by either loader *)

Depth == <<"D", "e", "p", "t", "h">>

HeaderSets ==
    { <<ParameterText, MinText, MaxText>>,
      <<<<"P", "a", "r", "a", "m", "e", "t", "e", "r">>, <<"M", "i", "n">>,
        <<"M", "A", "X">>>>,
      <<ParameterText, MaxText>>,
      <<MinText, MaxText>>,
      <<<<"P", "a", "r", "a", "m", "e", "t", "e", "r">>, <<"M", "i", "n">>>> }

SourceParams ==
    {StrCell(PH), StrCell(<<" ">> \o PH \o <<" ">>), StrCell(Turbidity),
     StrCell(Depth), NanCell}

SourceBounds ==
    { <<NumCell(70), NumCell(90)>>,
      <<StrCell(<<"8", ".", "0">>), NumCell(95)>>,
      <<NanCell, NumCell(90)>>,
      <<StrCell(<<"a", "b", "c">>), NumCell(90)>>,
      <<NumCell(70), NanCell>> }

SourceRows ==
    {[parameter |-> q, min |-> b[1], max |-> b[2]] :
        q \in SourceParams, b \in SourceBounds}

Sources ==
    {[state |-> "missing", headers |-> <<>>, rows |-> <<>>],
     [state |-> "unreadable", headers |-> <<>>, rows |-> <<>>]}
    \cup {[state |-> "table", headers |-> h, rows |-> r] :
            h \in HeaderSets,
            r \in UNION {[1..n -> SourceRows] : n \in 0..MaxSourceRows}}

LdInit ==
    /\ ldSource \in Sources
    /\ ldResult = <<>>
    /\ ldPc = "ready"
    /\ ClsIdle /\ NmIdle /\ SrvIdle

\* buoys.load_ranges_csv_simple on the source
LdSimple ==
    /\ ldPc = "ready"
    /\ ldResult' = load_ranges_csv_simple(ldSource)
    /\ ldPc' = "permissive"
    /\ UNCHANGED <<ldSource, clsVars, nmVars, srvVars>>

\* toolbox.load_ranges on the source
LdStrict ==
    /\ ldPc = "ready"
    /\ ldResult' = load_ranges(ldSource)
    /\ ldPc' = "strict"
    /\ UNCHANGED <<ldSource, clsVars, nmVars, srvVars>>

LdNext == LdSimple \/ LdStrict

SpecLoad == LdInit /\ [][LdNext]_vars

----------------------------------------------------------------------------
(* Claims about the loaders (SpecLoad) *)

\* the source has a column named exactly h / named h in any case
LdHasExact(h) ==
    /\ ldSource.state = "table"
    /\ \E j \in DOMAIN ldSource.headers : ldSource.headers[j] = h
LdHasAnyCase(h) ==
    /\ ldSource.state = "table"
    /\ \E j \in DOMAIN ldSource.headers : Lower(ldSource.headers[j]) = h

LdRequired == {ParameterText, MinText, MaxText}

\* C8: the permissive loader never reports an error, and for a source that
\* is absent, unreadable or without a required column it returns exactly
\* the hardcoded table of the 8 known parameters.
C8_PermissiveFallback ==
    ldPc = "permissive" =>
        /\ ldResult.ok
        /\ (\E h \in LdRequired : ~LdHasExact(h))
            => /\ ldResult.ranges = _FALLBACK_RANGES
               /\ DOMAIN ldResult.ranges = ParamSet
               /\ Cardinality(DOMAIN ldResult.ranges) = 8

\* the source lacks "min" and holds a pH row whose bounds are not the defaults
C8_Witness ==
    /\ ldPc = "permissive"
    /\ ldSource.state = "table"
    /\ ldSource.headers = <<ParameterText, MaxText>>
    /\ \E i \in DOMAIN ldSource.rows :
        /\ ldSource.rows[i].parameter = StrCell(PH)
        /\ ldSource.rows[i].max = NumCell(95)
    /\ ldResult.ranges[PH] = <<F(75), F(90)>>

\* C9: the strict loader fails, returning no mapping and never a default
\* table, when the file is missing or lacks parameter, min or max (matched
\* in any case); with the three headers in any case it loads.
C9_StrictFails ==
    ldPc = "strict" =>
        /\ (ldSource.state = "missing" \/ \E h \in LdRequired : ~LdHasAnyCase(h))
            => /\ ~ldResult.ok
               /\ ldResult.error \in {"FileNotFoundError", "ValueError"}
               /\ ldResult.ranges = <<>>
        /\ (\A h \in LdRequired : LdHasAnyCase(h)) => ldResult.ok

C9_Witness ==
    /\ ldPc = "strict"
    /\ ldSource.state = "table"
    /\ ldSource.headers = <<ParameterText, MaxText>>
    /\ ldSource.rows # <<>>
    /\ ~ldResult.ok /\ ldResult.error = "ValueError"

\* a row survives when parameter, min and max are present and min and max
\* parse as numbers
LdSurvives(row) ==
    /\ ~IsNa(row.parameter) /\ ~IsNa(row.min) /\ ~IsNa(row.max)
    /\ ~ToNumeric(row.min).nan /\ ~ToNumeric(row.max).nan

LdKeyOf(row) == Strip(AsStr(row.parameter))

\* the surviving rows that supply key q, and the entry of the last of them
LdSuppliers(q) ==
    {i \in DOMAIN ldSource.rows :
        LdSurvives(ldSource.rows[i]) /\ LdKeyOf(ldSource.rows[i]) = q}
LdEntry(q) ==
    LET row == ldSource.rows[SetMax(LdSuppliers(q))]
    IN  <<ToNumeric(row.min), ToNumeric(row.max)>>

LdKeys == {LdKeyOf(ldSource.rows[i]) : i \in DOMAIN ldSource.rows}

\* the strict loader drops exactly the rows that do not survive
StrictLoaderDropsOnlyBadRows ==
    (ldPc = "strict" /\ \A h \in LdRequired : LdHasAnyCase(h)) =>
        /\ ldResult.ok
        /\ DOMAIN ldResult.ranges = {q \in LdKeys : LdSuppliers(q) # {}}
        /\ \A q \in DOMAIN ldResult.ranges : ldResult.ranges[q] = LdEntry(q)

\* C10: in both loaders, for a source with the headers parameter, min, max,
\* a row with a missing parameter, min or max or an unparsable min or max is
\* dropped, and only that row: every surviving row gives its trimmed
\* parameter the range (min, max); the permissive loader injects the default
\* only for a known parameter that no surviving row supplies.
C10_AsStated ==
    (ldPc \in {"strict", "permissive"} /\ \A h \in LdRequired : LdHasExact(h)) =>
        /\ ldResult.ok
        /\ ldPc = "strict" =>
            /\ DOMAIN ldResult.ranges = {q \in LdKeys : LdSuppliers(q) # {}}
            /\ \A q \in DOMAIN ldResult.ranges : ldResult.ranges[q] = LdEntry(q)
        /\ ldPc = "permissive" =>
            \A q \in ParamSet :
                /\ q \in DOMAIN ldResult.ranges
                /\ ldResult.ranges[q] =
                    IF LdSuppliers(q) # {} THEN LdEntry(q) ELSE _FALLBACK_RANGES[q]

----------------------------------------------------------------------------
(* wq_buoy.py and main.py: reading an upload, rendering, the latest slot *)

None == [some |-> FALSE, bytes |-> <<>>]
Some(b) == [some |-> TRUE, bytes |-> b]

\* Path(filename).suffix.lower(): from the last dot of the name, empty when
\* there is none or the name only starts with it
SuffixOf(filename) ==
    LET dots == {i \in 1..Len(filename) : filename[i] = "."}
    IN  IF dots = {} \/ SetMax(dots) = 1 THEN <<>>
        ELSE Lower(SubSeq(filename, SetMax(dots), Len(filename)))

\* _read_dataframe_from_bytes: read_excel for .xlsx and .xls, read_csv for
\* anything else; the reader raises on bytes of another format
_read_dataframe_from_bytes(file, filename) ==
    LET excel == SuffixOf(filename) \in {Xlsx, <<".", "x", "l", "s">>}
    IN  IF (excel /\ file.kind = "xlsx") \/ (~excel /\ file.kind = "csv")
        THEN [ok |-> TRUE, df |-> file.df]
        ELSE [ok |-> FALSE, df |-> <<>>]

\* the characters a workbook refuses in a sheet title: to_excel raises
InvalidTitleChars == {"\\", "/", "*", "?", ":", "[", "]"}
InvalidTitle(name) == \E i \in DOMAIN name : name[i] \in InvalidTitleChars

\* a store that keeps the first workbook
StoreLatestFirstWins(latest, excel_bytes) ==
    IF latest.some THEN latest ELSE Some(excel_bytes)

\* LATEST_DOWNLOAD_BYTES = excel_bytes
StoreLatest(latest, excel_bytes) == Some(excel_bytes)

\* an except branch that also drops the stored workbook
OnExceptionClear(latest) == None

\* the except branch of upload_and_highlight, and its empty-upload return:
\* a 400 response, LATEST_DOWNLOAD_BYTES is not assigned
OnException(latest) == latest

\* a writer that hands out the workbook without its last sheet
WorkbookBytesPartial(buf) == SubSeq(buf, 1, Len(buf) - 1)

\* buf.getvalue() after the writer is closed: every sheet written
WorkbookBytes(buf) == buf

----------------------------------------------------------------------------
(* The server: uploads on the event loop, downloads and reloads on threads *)

BadTitle == <<"d", "[", "1", "]">>

DfA == << [name |-> PH, cells |-> <<NumCell(95)>>],
          [name |-> Turbidity, cells |-> <<NumCell(80)>>] >>
DfB == << [name |-> PH, cells |-> <<NanCell>>],
          [name |-> Notes, cells |-> <<StrCell(<<"a", "b", "c">>)>>] >>

FilePool ==
    { [filename |-> DataText \o Csv, kind |-> "csv", df |-> DfA],
      [filename |-> DataText \o Xlsx, kind |-> "xlsx", df |-> DfB],
      [filename |-> DataText \o Csv, kind |-> "garbage", df |-> <<>>],
      [filename |-> BadTitle \o Csv, kind |-> "csv", df |-> DfA] }

\* the range sources a reload may find: no file, or a file that narrows pH
ReloadSources ==
    { [state |-> "missing", headers |-> <<>>, rows |-> <<>>],
      [state |-> "table", headers |-> <<ParameterText, MinText, MaxText>>,
       rows |-> <<[parameter |-> StrCell(PH),
                   min |-> StrCell(<<"8", ".", "0">>), max |-> NumCell(95)]>>] }

\* an upload: n incoming files, files[1..idx-1] read so far
NewUpload ==
    [pc |-> "new", n |-> 0, files |-> <<>>, idx |-> 0, sheets |-> <<>>,
     existing_names |-> {}, rs |-> 0, rc |-> 0, cur |-> <<>>, buf |-> <<>>,
     excel_bytes |-> None, response |-> "", used |-> <<>>]

NewDownload == [pc |-> "new", response |-> "", body |-> None]

Uploads == 1..MaxUploads
Downloads == 1..MaxDownloads

SrvInit ==
    /\ RANGES \in {load_ranges_csv_simple(src).ranges : src \in ReloadSources}
    /\ LATEST_DOWNLOAD_BYTES = None
    /\ up = [u \in Uploads |-> NewUpload]
    /\ loop = 0
    /\ dl = [d \in Downloads |-> NewDownload]
    /\ hist = [stored |-> <<>>, reloads |-> 0]
    /\ ClsIdle /\ NmIdle /\ LdIdle

\* upload_and_highlight up to its first await: the incoming files are
\* collected, an empty list is answered at once with a 400
Request(u) ==
    /\ up[u].pc = "new" /\ loop = 0
    /\ (IF u = 1 THEN TRUE ELSE up[u - 1].pc # "new")
    /\ \E n \in 0..MaxFiles :
        IF n = 0
        THEN /\ LATEST_DOWNLOAD_BYTES' = OnException(LATEST_DOWNLOAD_BYTES)
             /\ up' = [up EXCEPT ![u].pc = "done", ![u].response = "empty"]
        ELSE /\ up' = [up EXCEPT ![u].pc = "await", ![u].n = n, ![u].idx = 1]
             /\ UNCHANGED LATEST_DOWNLOAD_BYTES
    /\ UNCHANGED <<RANGES, loop, dl, hist, clsVars, nmVars, ldVars>>

\* the loop body after "await f.read()": the file's bytes are in, it is
\* parsed and its sheet named; a parse error ends in the except branch; after
\* the last file _highlight_df_bytes begins and keeps the event loop
Resume(u) ==
    /\ up[u].pc = "await" /\ loop = 0
    /\ \E f \in FilePool :
        LET idx == up[u].idx
            uploaded == <<"u", "p", "l", "o", "a", "d", "e", "d", "_">>
                         \o NatStr(idx) \o Csv
            read == _read_dataframe_from_bytes(
                         f, IF f.filename = <<>> THEN uploaded ELSE f.filename)
            sheet_name == _unique_sheet_name(SheetBase(f.filename, idx),
                                             up[u].existing_names)
            got == [up[u] EXCEPT !.files = Append(@, f)]
            named == [got EXCEPT
                         !.existing_names = @ \cup {sheet_name},
                         !.sheets = Append(@, [name |-> sheet_name,
                                               df |-> read.df])]
        IN  IF ~read.ok
            THEN /\ LATEST_DOWNLOAD_BYTES' = OnException(LATEST_DOWNLOAD_BYTES)
                 /\ up' = [up EXCEPT ![u] =
                            [got EXCEPT !.pc = "done", !.response = "error"]]
                 /\ loop' = 0
            ELSE IF idx < up[u].n
            THEN /\ up' = [up EXCEPT ![u] = [named EXCEPT !.idx = idx + 1]]
                 /\ loop' = 0
                 /\ UNCHANGED LATEST_DOWNLOAD_BYTES
            ELSE /\ up' = [up EXCEPT ![u] =
                            [named EXCEPT !.pc = "render", !.rs = 1, !.rc = 1]]
                 /\ loop' = u
                 /\ UNCHANGED LATEST_DOWNLOAD_BYTES
    /\ UNCHANGED <<RANGES, dl, hist, clsVars, nmVars, ldVars>>

\* one call of style_col inside styler.to_excel: the column of the sheet is
\* filled with "N/A" and styled against WQ_Buoy.RANGES as it is now; after
\* the last column the sheet is written (a refused title ends in the except
\* branch), after the last sheet the writer is closed
RenderColumn(u) ==
    /\ up[u].pc = "render" /\ loop = u
    /\ LET entry == up[u].sheets[up[u].rs]
           col == entry.df[up[u].rc]
           df_display == [i \in DOMAIN col.cells |-> FillNa(col.cells[i])]
           styles == style_col(RANGES, col.name, df_display, DefaultTokens)
           cur == Append(up[u].cur, styles)
           styled == [up[u] EXCEPT
                        !.used = Append(@, [sheet |-> up[u].rs, ranges |-> RANGES])]
           buf == Append(up[u].buf, [name |-> entry.name, styles |-> cur])
       IN  IF up[u].rc < Len(entry.df)
           THEN /\ up' = [up EXCEPT ![u] =
                            [styled EXCEPT !.rc = @ + 1, !.cur = cur]]
                /\ UNCHANGED <<LATEST_DOWNLOAD_BYTES, loop>>
           ELSE IF InvalidTitle(entry.name)
           THEN /\ LATEST_DOWNLOAD_BYTES' = OnException(LATEST_DOWNLOAD_BYTES)
                /\ up' = [up EXCEPT ![u] =
                            [styled EXCEPT !.pc = "done", !.response = "error"]]
                /\ loop' = 0
           ELSE IF up[u].rs < Len(up[u].sheets)
           THEN /\ up' = [up EXCEPT ![u] =
                            [styled EXCEPT !.rs = @ + 1, !.rc = 1,
                                           !.cur = <<>>, !.buf = buf]]
                /\ UNCHANGED <<LATEST_DOWNLOAD_BYTES, loop>>
           ELSE /\ up' = [up EXCEPT ![u] =
                            [styled EXCEPT !.pc = "store", !.cur = <<>>,
                                           !.buf = buf,
                                           !.excel_bytes = Some(WorkbookBytes(buf))]]
                /\ UNCHANGED <<LATEST_DOWNLOAD_BYTES, loop>>
    /\ UNCHANGED <<RANGES, dl, hist, clsVars, nmVars, ldVars>>

\* LATEST_DOWNLOAD_BYTES = excel_bytes, then the 200 response
Store(u) ==
    /\ up[u].pc = "store" /\ loop = u
    /\ LATEST_DOWNLOAD_BYTES' =
            StoreLatest(LATEST_DOWNLOAD_BYTES, up[u].excel_bytes.bytes)
    /\ hist' = [hist EXCEPT !.stored =
                    Append(@, [u |-> u, bytes |-> up[u].excel_bytes.bytes])]
    /\ up' = [up EXCEPT ![u].pc = "done", ![u].response = "ok"]
    /\ loop' = 0
    /\ UNCHANGED <<RANGES, dl, clsVars, nmVars, ldVars>>

\* download_latest: the test of LATEST_DOWNLOAD_BYTES against None
DlCheck(d) ==
    /\ dl[d].pc = "new"
    /\ dl' = [dl EXCEPT ![d] =
                IF LATEST_DOWNLOAD_BYTES.some
                THEN [@ EXCEPT !.pc = "read"]
                ELSE [@ EXCEPT !.pc = "done", !.response = "404"]]
    /\ UNCHANGED <<RANGES, LATEST_DOWNLOAD_BYTES, up, loop, hist,
                   clsVars, nmVars, ldVars>>

\* download_latest: the read of LATEST_DOWNLOAD_BYTES for the response
DlRead(d) ==
    /\ dl[d].pc = "read"
    /\ dl' = [dl EXCEPT ![d] =
                [@ EXCEPT !.pc = "done", !.response = "200",
                          !.body = LATEST_DOWNLOAD_BYTES]]
    /\ UNCHANGED <<RANGES, LATEST_DOWNLOAD_BYTES, up, loop, hist,
                   clsVars, nmVars, ldVars>>

\* WQ_Buoy.refresh_ranges_from_csv: cls.RANGES is rebound to a new table
Reload ==
    /\ hist.reloads < MaxReloads
    /\ \E src \in ReloadSources :
        RANGES' = load_ranges_csv_simple(src).ranges
    /\ hist' = [hist EXCEPT !.reloads = @ + 1]
    /\ UNCHANGED <<LATEST_DOWNLOAD_BYTES, up, loop, dl, clsVars, nmVars, ldVars>>

Next ==
    \/ \E u \in Uploads : Request(u) \/ Resume(u) \/ RenderColumn(u) \/ Store(u)
    \/ \E d \in Downloads : DlCheck(d) \/ DlRead(d)
    \/ Reload

Spec == SrvInit /\ [][Next]_vars

----------------------------------------------------------------------------
(* Claims about the server (Spec) *)

UpFailed(u) == up[u].response \in {"empty", "error"}

\* the workbook the last successful store wrote
LastStored == hist.stored[Len(hist.stored)]

\* b is the whole workbook of upload u: one sheet per file, in order, each
\* with its name and a style list for every column
CompleteWorkbook(b, u) ==
    /\ up[u].excel_bytes = Some(b)
    /\ Len(b) = up[u].n /\ Len(b) = Len(up[u].sheets)
    /\ \A k \in DOMAIN b :
        /\ b[k].name = up[u].sheets[k].name
        /\ Len(b[k].styles) = Len(up[u].sheets[k].df)

\* C4: an upload with no files ends in the empty-upload error, and an upload
\* that fails (no files, a parse error or a render error, also after earlier
\* files parsed) leaves LATEST_DOWNLOAD_BYTES as it was: the failing step
\* does not change it, the slot only changes in the step that ends an upload
\* successfully, and a failed upload never stored.
C4_FailureKeepsLatest ==
    /\ [](\A u \in Uploads :
            /\ (up[u].pc = "done" /\ up[u].n = 0) => up[u].response = "empty"
            /\ UpFailed(u) => \A k \in DOMAIN hist.stored : hist.stored[k].u # u)
    /\ [][ /\ \A u \in Uploads :
                (up[u].response = "" /\ up'[u].response \in {"empty", "error"})
                    => LATEST_DOWNLOAD_BYTES' = LATEST_DOWNLOAD_BYTES
           /\ LATEST_DOWNLOAD_BYTES' # LATEST_DOWNLOAD_BYTES
                => \E u \in Uploads :
                        up[u].response = "" /\ up'[u].response = "ok" ]_vars

\* upload 2 fails on its second file after its first one parsed, and the
\* workbook of upload 1 is still the latest
C4_Witness ==
    /\ up[1].response = "ok"
    /\ up[2].response = "error"
    /\ Len(up[2].files) = 2 /\ Len(up[2].sheets) = 1
    /\ LATEST_DOWNLOAD_BYTES = up[1].excel_bytes

\* C5: LATEST_DOWNLOAD_BYTES, and every body a download returns, is absent
\* or the whole workbook of an upload that finished rendering; once all
\* uploads have finished it is the workbook of the upload that stored last.
C5_CompleteLastWins ==
    /\ LATEST_DOWNLOAD_BYTES.some =>
        \E u \in Uploads :
            /\ up[u].pc = "done"
            /\ CompleteWorkbook(LATEST_DOWNLOAD_BYTES.bytes, u)
    /\ \A d \in Downloads :
        dl[d].response = "200" =>
            /\ dl[d].body.some
            /\ \E u \in Uploads : CompleteWorkbook(dl[d].body.bytes, u)
    /\ ( (\A u \in Uploads : up[u].pc = "done") /\ hist.stored # <<>> )
        => LATEST_DOWNLOAD_BYTES = up[LastStored.u].excel_bytes

\* upload 1 was requested first and stored last: its workbook is the latest
C5_Witness ==
    /\ \A u \in Uploads : up[u].pc = "done"
    /\ Len(hist.stored) = 2
    /\ hist.stored[1].u = 2 /\ hist.stored[2].u = 1
    /\ up[1].excel_bytes # up[2].excel_bytes
    /\ LATEST_DOWNLOAD_BYTES = up[1].excel_bytes

\* C6: a download answers 404 exactly while no upload has succeeded; after
\* a success it answers with the workbook stored most recently; the slot is
\* absent until the first success and is never absent again.
C6_LatestLifecycle ==
    /\ [](/\ LATEST_DOWNLOAD_BYTES.some <=> hist.stored # <<>>
          /\ hist.stored # <<>> =>
                LATEST_DOWNLOAD_BYTES = Some(LastStored.bytes))
    /\ [][ /\ LATEST_DOWNLOAD_BYTES.some => LATEST_DOWNLOAD_BYTES'.some
           /\ \A d \in Downloads :
                /\ (dl[d].pc = "new" /\ dl'[d].pc # "new") =>
                        IF hist.stored = <<>>
                        THEN dl'[d].response = "404"
                        ELSE dl'[d].pc = "read"
                /\ (dl[d].pc = "read" /\ dl'[d].pc # "read") =>
                        /\ dl'[d].response = "200"
                        /\ dl'[d].body = Some(LastStored.bytes) ]_vars

\* a download is served the stored workbook after a later upload failed
C6_Witness ==
    /\ Len(hist.stored) = 1 /\ hist.stored[1].u = 1
    /\ up[2].response = "error"
    /\ dl[1].response = "200" /\ dl[1].body = up[1].excel_bytes

\* C7: WQ_Buoy.RANGES is always a whole table, and all columns of all sheets
\* that one upload classifies are classified against one and the same table.
C7_AsStated ==
    /\ DOMAIN RANGES = ParamSet
    /\ \A u \in Uploads :
        \A i, j \in DOMAIN up[u].used :
            up[u].used[i].ranges = up[u].used[j].ranges

====
